---- MODULE Spec2Model ----
(***************************************************************************)
(* Model of the email-verifier server: the csv_uploads / email_records     *)
(* store, uploadCsv (CSV ingestion), validateEmails (the synchronous       *)
(* "start" transition), validateEmailsBackground (the deferred per-record  *)
(* validation phase), and the reading procedures getUploadResults,         *)
(* downloadValidatedCsv and getUploads.                                    *)
(*                                                                         *)
(* Text is a sequence of one-character strings.  Every `await db....`      *)
(* of a handler is one atomic step of the model: the store executes the    *)
(* statement and the handler runs on to its next await (JavaScript runs    *)
(* the code between two awaits without interruption).  The one place where *)
(* a handler returns to its caller right after a write, the "no email      *)
(* records" return of validateEmails, is a step of its own: the store has  *)
(* executed the update before the handler resumes, and statements of other *)
(* handlers can execute in between.  Handlers that are                     *)
(* suspended at an await interleave freely.  A handler that is suspended   *)
(* is a frame; the frames in flight form a bag, since two invocations with *)
(* the same argument at the same await are two frames.                     *)
(***************************************************************************)
EXTENDS Integers, Sequences, FiniteSets, Bags, TLC

\* Bounds of the model.
MaxUploads == 1     \* uploadCsv invocations that reach the store
MaxInFlight == 2    \* validateEmails calls and background tasks in flight at once

\* SQL NULL / JavaScript null, for the columns and fields that hold strings.
NULL == "null"
\* An optional text input that was not supplied (JavaScript undefined): a
\* value that is no text, text being a sequence of one-character strings.
Undefined == <<"undefined">>
\* A value of `new Date()` / defaultNow(): only "set or null" is modelled.
DATE == "date"

VARIABLES
    uploads,    \* csv_uploads table: upload id -> row
    records,    \* email_records table: sequence of rows, in id order
    ingests,    \* uploadCsv invocations that inserted an upload row, by upload id
    frames,     \* suspended handler calls and background tasks in flight (a bag)
    last        \* the latest response or error a handler gave its caller

vars == <<uploads, records, ingests, frames, last>>

----------------------------------------------------------------------------
\* Text helpers (JavaScript String methods used by the handlers).

Str_email == <<"e", "m", "a", "i", "l">>
Str_mail == <<"m", "a", "i", "l">>
Str_disposable == <<"d", "i", "s", "p", "o", "s", "a", "b", "l", "e">>
Str_temp == <<"t", "e", "m", "p">>
Str_catch_all == <<"c", "a", "t", "c", "h", "_", "a", "l", "l">>

\* Characters String.prototype.trim removes.
IsWhitespace(ch) == ch \in {" ", "\n", "\t", "\r"}

RECURSIVE TrimStart(_)
TrimStart(s) ==
    IF s # <<>> /\ IsWhitespace(Head(s)) THEN TrimStart(Tail(s)) ELSE s

RECURSIVE TrimEnd(_)
TrimEnd(s) ==
    IF s # <<>> /\ IsWhitespace(s[Len(s)])
    THEN TrimEnd(SubSeq(s, 1, Len(s) - 1))
    ELSE s

\* String.prototype.trim
Trim(s) == TrimEnd(TrimStart(s))

\* String.prototype.split(sep) for a one-character separator: the pieces
\* between the separators, always at least one (the empty text splits
\* into one empty piece).
Split(s, sep) ==
    LET seps == {i \in 1..Len(s) : s[i] = sep}
        \* the position of the k-th separator; the ends of the text for
        \* k = 0 and for k past the last one
        At(k) == IF k = 0 THEN 0
                 ELSE IF k > Cardinality(seps) THEN Len(s) + 1
                 ELSE CHOOSE i \in seps : Cardinality({j \in seps : j < i}) = k - 1
    IN  [k \in 1..(Cardinality(seps) + 1) |-> SubSeq(s, At(k - 1) + 1, At(k) - 1)]

\* String.prototype.includes
Includes(s, sub) ==
    \E i \in 0..(Len(s) - Len(sub)) : SubSeq(s, i + 1, i + Len(sub)) = sub

LowerChar(ch) ==
    CASE ch = "E" -> "e"
      [] ch = "M" -> "m"
      [] ch = "A" -> "a"
      [] ch = "I" -> "i"
      [] ch = "L" -> "l"
      [] OTHER -> ch

\* String.prototype.toLowerCase
ToLowerCase(s) == [i \in 1..Len(s) |-> LowerChar(s[i])]

\* Array.prototype.indexOf, 1-based; 0 when absent (JavaScript's -1).
IndexOf(seq, x) ==
    IF \E i \in 1..Len(seq) : seq[i] = x
    THEN CHOOSE i \in 1..Len(seq) : seq[i] = x /\ \A j \in 1..(i - 1) : seq[j] # x
    ELSE 0

----------------------------------------------------------------------------
\* parseCSVRow: one line into trimmed fields, honouring double quotes.

RECURSIVE parseCSVRowLoop(_, _, _, _, _)
parseCSVRowLoop(row, i, current, inQuotes, result) ==
    IF i > Len(row) THEN Append(result, current)
    ELSE IF row[i] = "\""
         THEN IF inQuotes /\ i + 1 <= Len(row) /\ row[i + 1] = "\""
              THEN parseCSVRowLoop(row, i + 2, Append(current, "\""), inQuotes, result)
              ELSE parseCSVRowLoop(row, i + 1, current, ~inQuotes, result)
         ELSE IF row[i] = "," /\ ~inQuotes
              THEN parseCSVRowLoop(row, i + 1, <<>>, inQuotes, Append(result, current))
              ELSE parseCSVRowLoop(row, i + 1, Append(current, row[i]), inQuotes, result)

parseCSVRow(row) ==
    LET fields == parseCSVRowLoop(row, 1, <<>>, FALSE, <<>>)
    IN  [k \in 1..Len(fields) |-> Trim(fields[k])]

----------------------------------------------------------------------------
\* uploadCsv: the part that runs before the first await (decode, parse,
\* resolve the email column) as operators, then the two store statements.

\* Error messages thrown by uploadCsv.
ErrNoDataRow == "CSV must contain at least a header row and one data row"
ErrNoColumn == "CSV must contain at least one column"
ErrColumnNotFound == "Email column not found in CSV headers"
\* A rejected store statement (the driver's error, thrown on from the handler).
ErrStore == "store statement failed"

\* csvContent.trim().split('\n')
CsvLines(csvContent) == Split(Trim(csvContent), "\n")

\* headers.find(h => lower(h).includes('email') || lower(h).includes('mail')) || headers[0]
DetectEmailColumn(headers) ==
    LET hit(h) == \/ Includes(ToLowerCase(h), Str_email)
                  \/ Includes(ToLowerCase(h), Str_mail)
    IN  IF \E k \in 1..Len(headers) : hit(headers[k])
        THEN headers[CHOOSE k \in 1..Len(headers) :
                         hit(headers[k]) /\ \A j \in 1..(k - 1) : ~hit(headers[j])]
        ELSE headers[1]

\* let emailColumn = input.email_column; if (!emailColumn) { auto-detect }
ResolveEmailColumn(headers, email_column) ==
    IF email_column = Undefined \/ email_column = <<>>
    THEN DetectEmailColumn(headers)
    ELSE email_column

\* rowData[index] || ''
FieldAt(rowData, index) ==
    IF index >= 1 /\ index <= Len(rowData) THEN rowData[index] ELSE <<>>

\* rowData.every(cell => cell.trim() === '')
IsEmptyRow(rowData) == \A k \in 1..Len(rowData) : Trim(rowData[k]) = <<>>

\* obj[key] = value on a JavaScript object kept as a sequence of <<key, value>>
\* in property order: an existing key keeps its place and takes the new value.
ObjectSet(obj, key, value) ==
    IF \E k \in 1..Len(obj) : obj[k][1] = key
    THEN [k \in 1..Len(obj) |-> IF obj[k][1] = key THEN <<key, value>> ELSE obj[k]]
    ELSE Append(obj, <<key, value>>)

\* headers.forEach((header, index) => { if (index !== emailColumnIndex) ... })
RECURSIVE AdditionalDataFrom(_, _, _, _, _)
AdditionalDataFrom(headers, rowData, emailColumnIndex, index, obj) ==
    IF index > Len(headers) THEN obj
    ELSE AdditionalDataFrom(headers, rowData, emailColumnIndex, index + 1,
            IF index # emailColumnIndex
            THEN ObjectSet(obj, headers[index], FieldAt(rowData, index))
            ELSE obj)

AdditionalData(headers, rowData, emailColumnIndex) ==
    AdditionalDataFrom(headers, rowData, emailColumnIndex, 1, <<>>)

\* The for loop over lines[1..]: one new email record per non-empty row.
\* lines[i] of the code (0-based, header at 0) is lines[i + 1] here.
RECURSIVE BuildEmailRecords_HeaderCounted(_, _, _, _, _)
\* Variant: row_number counts the lines from the header on and restarts
\* after a skipped row.
BuildEmailRecords_HeaderCounted(upload_id, lines, headers, emailColumnIndex, i) ==
    IF i + 1 > Len(lines) THEN <<>>
    ELSE LET rowData == parseCSVRow(lines[i + 1])
             rest == BuildEmailRecords_HeaderCounted(upload_id, lines, headers, emailColumnIndex, i + 1)
         IN  IF IsEmptyRow(rowData)
             THEN [k \in 1..Len(rest) |-> [rest[k] EXCEPT !.row_number = k - 1]]
             ELSE <<[upload_id |-> upload_id,
                     row_number |-> i,
                     email |-> Trim(FieldAt(rowData, emailColumnIndex)),
                     additional_data |-> AdditionalData(headers, rowData, emailColumnIndex)]>>
                  \o rest

RECURSIVE BuildEmailRecords(_, _, _, _, _)
BuildEmailRecords(upload_id, lines, headers, emailColumnIndex, i) ==
    IF i + 1 > Len(lines) THEN <<>>
    ELSE LET rowData == parseCSVRow(lines[i + 1])
             rest == BuildEmailRecords(upload_id, lines, headers, emailColumnIndex, i + 1)
         IN  IF IsEmptyRow(rowData) THEN rest
             ELSE <<[upload_id |-> upload_id,
                     row_number |-> i,
                     email |-> Trim(FieldAt(rowData, emailColumnIndex)),
                     additional_data |-> AdditionalData(headers, rowData, emailColumnIndex)]>>
                  \o rest

\* const totalRows = lines.length - 1, the value stored on the upload row.
TotalRows(lines) == Len(lines) - 1

\* The error uploadCsv throws before it touches the store, or NULL.
UploadCsvError(content, email_column) ==
    LET lines == CsvLines(content)
        headers == parseCSVRow(lines[1])
    IN  IF Len(lines) < 2 THEN ErrNoDataRow
        ELSE IF Len(headers) = 0 THEN ErrNoColumn
        ELSE IF IndexOf(headers, ResolveEmailColumn(headers, email_column)) = 0
             THEN ErrColumnNotFound
        ELSE NULL

\* serial primary keys: the next id of each table (no row is ever deleted).
NextUploadId == Cardinality(DOMAIN uploads) + 1
NextRecordId == Len(records) + 1

\* db.insert(emailRecordsTable).values(emailRecords): ids in order, the
\* validation columns default to NULL.
InsertedRecords(emailRecords) ==
    [k \in 1..Len(emailRecords) |->
        [id |-> NextRecordId + k - 1,
         upload_id |-> emailRecords[k].upload_id,
         row_number |-> emailRecords[k].row_number,
         email |-> emailRecords[k].email,
         validation_status |-> NULL,
         validation_result |-> NULL,
         additional_data |-> emailRecords[k].additional_data,
         validated_at |-> NULL]]

\* The UploadResponse returned on success.
UploadResponse(upload_id, emailRecords, emailColumn, headers) ==
    [upload_id |-> upload_id,
     total_rows |-> Len(emailRecords),
     email_column |-> emailColumn,
     detected_columns |-> headers]

\* The row uploadCsv inserts into csv_uploads.  created_at (defaultNow) is
\* a number: the rows are numbered in the order of their inserts.
NewUploadRow(content, lines, emailColumn, now) ==
    [file_size |-> Len(content),
     total_rows |-> TotalRows(lines),
     email_column |-> emailColumn,
     status |-> "uploaded",
     created_at |-> now,
     completed_at |-> NULL]

\* What a caller got back: a message (validateEmails), or an error thrown.
Returned(op, upload_id, message) ==
    [op |-> op, upload_id |-> upload_id, message |-> message, error |-> NULL]
Threw(op, upload_id, error) ==
    [op |-> op, upload_id |-> upload_id, message |-> NULL, error |-> error]

\* uploadCsv up to and including `await db.insert(csvUploadsTable)`, and,
\* when no email record was built, on to the return.
uploadCsv(content, email_column) ==
    /\ Len(ingests) < MaxUploads
    /\ LET err == UploadCsvError(content, email_column)
           lines == CsvLines(content)
           headers == parseCSVRow(lines[1])
           emailColumn == ResolveEmailColumn(headers, email_column)
           emailColumnIndex == IndexOf(headers, emailColumn)
           id == NextUploadId
           emailRecords == BuildEmailRecords(id, lines, headers, emailColumnIndex, 1)
       IN  IF err # NULL
           THEN /\ last' = Threw("uploadCsv", 0, err)
                /\ UNCHANGED <<uploads, ingests>>
           ELSE /\ uploads' = uploads @@ (id :> NewUploadRow(content, lines, emailColumn, id))
                /\ ingests' = Append(ingests,
                      [pc |-> IF Len(emailRecords) > 0 THEN "insert_records" ELSE "returned",
                       emailRecords |-> emailRecords,
                       response |-> UploadResponse(id, emailRecords, emailColumn, headers),
                       error |-> NULL])
                /\ UNCHANGED last
    /\ UNCHANGED <<records, frames>>

\* Variant: the insert replaces the rows of the table.
uploadCsvInsertRecords_Replace(n, ok) ==
    /\ n \in 1..Len(ingests)
    /\ ingests[n].pc = "insert_records"
    /\ IF ok
       THEN /\ records' = InsertedRecords(ingests[n].emailRecords)
            /\ ingests' = [ingests EXCEPT ![n].pc = "returned"]
       ELSE /\ ingests' = [ingests EXCEPT ![n].pc = "threw", ![n].error = ErrStore]
            /\ UNCHANGED records
    /\ UNCHANGED <<uploads, frames, last>>

\* `await db.insert(emailRecordsTable).values(emailRecords)` and the return;
\* when the statement is rejected the handler rethrows and the upload row
\* inserted before stays as it is.
uploadCsvInsertRecords(n, ok) ==
    /\ n \in 1..Len(ingests)
    /\ ingests[n].pc = "insert_records"
    /\ IF ok
       THEN /\ records' = records \o InsertedRecords(ingests[n].emailRecords)
            /\ ingests' = [ingests EXCEPT ![n].pc = "returned"]
       ELSE /\ ingests' = [ingests EXCEPT ![n].pc = "threw", ![n].error = ErrStore]
            /\ UNCHANGED records
    /\ UNCHANGED <<uploads, frames, last>>

----------------------------------------------------------------------------
\* validateEmails ("start") and validateEmailsBackground.

\* Error messages thrown by validateEmails, and the messages it returns.
ErrNotFound == "Upload not found"
ErrAlreadyProcessing == "Upload is already being processed"
ErrAlreadyCompleted == "Upload has already been validated"
ErrFailedState == "Upload is in failed state and cannot be processed"
MsgNoRecords == "No email records found for upload. Upload marked as completed."
MsgStarted == "Email validation started for upload. This process will run in the background."

\* db.select().from(emailRecordsTable).where(eq(upload_id, ...))
SelectRecords(upload_id) == SelectSeq(records, LAMBDA r : r.upload_id = upload_id)

\* Mutant of ValidateGuard: the check for the failed state is missing, so
\* a failed upload can be started again.
ValidateGuard_RetryFailed(upload_id) ==
    IF upload_id \notin DOMAIN uploads THEN ErrNotFound
    ELSE IF uploads[upload_id].status = "processing" THEN ErrAlreadyProcessing
    ELSE IF uploads[upload_id].status = "completed" THEN ErrAlreadyCompleted
    ELSE NULL

\* The select of the upload row and the state checks that follow it: the
\* error validateEmails throws, or NULL when the upload may be started.
ValidateGuard(upload_id) ==
    IF upload_id \notin DOMAIN uploads THEN ErrNotFound
    ELSE IF uploads[upload_id].status = "processing" THEN ErrAlreadyProcessing
    ELSE IF uploads[upload_id].status = "completed" THEN ErrAlreadyCompleted
    ELSE IF uploads[upload_id].status = "failed" THEN ErrFailedState
    ELSE NULL

\* .set({ status: 'processing' })
SetProcessing(row) == [row EXCEPT !.status = "processing"]

\* .set({ status: 'completed', completed_at: new Date() }) of validateEmails
SetCompletedNoRecords(row) == [row EXCEPT !.status = "completed", !.completed_at = DATE]

\* .set({ status: 'completed', completed_at: now }) of the background task
SetCompleted(row) == [row EXCEPT !.status = "completed", !.completed_at = DATE]

\* .set({ status: 'failed', completed_at: new Date() })
SetFailed(row) == [row EXCEPT !.status = "failed", !.completed_at = DATE]

\* Variant: the update has no where clause.
UpdateUpload_NoWhere(upload_id, row) ==
    [id \in DOMAIN uploads |-> row]

\* db.update(csvUploadsTable).set(...).where(eq(id, upload_id))
UpdateUpload(upload_id, row) ==
    [id \in DOMAIN uploads |->
        IF id = upload_id THEN row ELSE uploads[id]]

\* A validateEmails call suspended at the await named by pc.
CallFrame(upload_id, pc) ==
    [fn |-> "validateEmails", upload_id |-> upload_id, pc |-> pc,
     emailRecords |-> <<>>, i |-> 0]

\* A validateEmailsBackground(uploadId, emailRecords) task: handed to
\* setImmediate ("scheduled"), in its loop before record i, or in its catch.
TaskFrame(uploadId, pc, emailRecords, i) ==
    [fn |-> "validateEmailsBackground", upload_id |-> uploadId, pc |-> pc,
     emailRecords |-> emailRecords, i |-> i]

Calls(pc) == {f \in BagToSet(frames) : f.fn = "validateEmails" /\ f.pc = pc}
Tasks(pcs) == {f \in BagToSet(frames) : f.fn = "validateEmailsBackground" /\ f.pc \in pcs}

Without(f) == frames (-) SetToBag({f})
Replaced(f, g) == Without(f) (+) SetToBag({g})

\* The call, the select of the upload row and the checks on it.
validateEmails(upload_id) ==
    /\ BagCardinality(frames) < MaxInFlight
    /\ LET err == ValidateGuard(upload_id)
       IN  IF err # NULL
           THEN /\ last' = Threw("validateEmails", upload_id, err)
                /\ UNCHANGED frames
           ELSE /\ frames' = frames (+) SetToBag({CallFrame(upload_id, "update_processing")})
                /\ UNCHANGED last
    /\ UNCHANGED <<uploads, records, ingests>>

\* await db.update(csvUploadsTable).set({ status: 'processing' })
validateEmailsSetProcessing(f) ==
    /\ f \in Calls("update_processing")
    /\ uploads' = UpdateUpload(f.upload_id, SetProcessing(uploads[f.upload_id]))
    /\ frames' = Replaced(f, CallFrame(f.upload_id, "select_records"))
    /\ UNCHANGED <<records, ingests, last>>

\* Whether validateEmails, given the email records it selected, hands them
\* to a background task (otherwise it marks the upload completed itself).
StartsBackground(emailRecords) == Len(emailRecords) # 0

\* await db.select().from(emailRecordsTable)... and what follows it: with no
\* record on to the next await, otherwise setImmediate and the return.
validateEmailsSelectRecords(f) ==
    /\ f \in Calls("select_records")
    /\ LET emailRecords == SelectRecords(f.upload_id)
       IN  IF StartsBackground(emailRecords)
           THEN /\ frames' = Replaced(f, TaskFrame(f.upload_id, "scheduled", emailRecords, 1))
                /\ last' = Returned("validateEmails", f.upload_id, MsgStarted)
           ELSE /\ frames' = Replaced(f, CallFrame(f.upload_id, "update_completed"))
                /\ UNCHANGED last
    /\ UNCHANGED <<uploads, records, ingests>>

\* await db.update(csvUploadsTable).set({ status: 'completed', ... }): the
\* statement takes effect in the store; the call resumes later.
validateEmailsSetCompleted(f) ==
    /\ f \in Calls("update_completed")
    /\ uploads' = UpdateUpload(f.upload_id, SetCompletedNoRecords(uploads[f.upload_id]))
    /\ frames' = Replaced(f, CallFrame(f.upload_id, "return_completed"))
    /\ UNCHANGED <<records, ingests, last>>

\* The call resumes after that update and returns the "no email records"
\* message.  Statements of other calls and tasks can take effect between
\* the update and this return.
validateEmailsReturnCompleted(f) ==
    /\ f \in Calls("return_completed")
    /\ frames' = Without(f)
    /\ last' = Returned("validateEmails", f.upload_id, MsgNoRecords)
    /\ UNCHANGED <<uploads, records, ingests>>

\* Mutant of simulateMillionVerifierAPI: the catch_all check comes before
\* the disposable check.
simulateMillionVerifierAPI_CatchAllFirst(email) ==
    IF ~Includes(email, <<"@">>)
    THEN [status |-> "invalid", resultcode |-> 2, result |-> "invalid",
          credits |-> 99, executiontime |-> "0.1"]
    ELSE IF Includes(email, Str_catch_all)
    THEN [status |-> "catch_all", resultcode |-> 3, result |-> "catch_all",
          credits |-> 99, executiontime |-> "0.1"]
    ELSE IF Includes(email, Str_disposable) \/ Includes(email, Str_temp)
    THEN [status |-> "disposable", resultcode |-> 4, result |-> "disposable",
          credits |-> 99, executiontime |-> "0.1"]
    ELSE [status |-> "ok", resultcode |-> 1, result |-> "ok",
          credits |-> 99, executiontime |-> "0.1"]

\* simulateMillionVerifierAPI
simulateMillionVerifierAPI(email) ==
    IF ~Includes(email, <<"@">>)
    THEN [status |-> "invalid", resultcode |-> 2, result |-> "invalid",
          credits |-> 99, executiontime |-> "0.1"]
    ELSE IF Includes(email, Str_disposable) \/ Includes(email, Str_temp)
    THEN [status |-> "disposable", resultcode |-> 4, result |-> "disposable",
          credits |-> 99, executiontime |-> "0.1"]
    ELSE IF Includes(email, Str_catch_all)
    THEN [status |-> "catch_all", resultcode |-> 3, result |-> "catch_all",
          credits |-> 99, executiontime |-> "0.1"]
    ELSE [status |-> "ok", resultcode |-> 1, result |-> "ok",
          credits |-> 99, executiontime |-> "0.1"]

\* JSON.stringify(validationResult): the text stored in validation_result.
JsonStringify(validationResult) ==
    CASE validationResult.status = "invalid" ->
           "{\"status\":\"invalid\",\"resultcode\":2,\"result\":\"invalid\",\"credits\":99,\"executiontime\":0.1}"
      [] validationResult.status = "disposable" ->
           "{\"status\":\"disposable\",\"resultcode\":4,\"result\":\"disposable\",\"credits\":99,\"executiontime\":0.1}"
      [] validationResult.status = "catch_all" ->
           "{\"status\":\"catch_all\",\"resultcode\":3,\"result\":\"catch_all\",\"credits\":99,\"executiontime\":0.1}"
      [] validationResult.status = "ok" ->
           "{\"status\":\"ok\",\"resultcode\":1,\"result\":\"ok\",\"credits\":99,\"executiontime\":0.1}"

\* The loop's `if (record.validation_status) continue`: the index of the
\* first record at or after i that the task's own list shows unvalidated,
\* 0 when there is none.
NextUnvalidated(emailRecords, i) ==
    IF \E j \in i..Len(emailRecords) : emailRecords[j].validation_status = NULL
    THEN CHOOSE j \in i..Len(emailRecords) :
            /\ emailRecords[j].validation_status = NULL
            /\ \A k \in i..(j - 1) : emailRecords[k].validation_status # NULL
    ELSE 0

\* Mutant of SetValidation: validated_at is left out of the update.
SetValidation_NoTimestamp(row, validationResult) ==
    [row EXCEPT !.validation_status = validationResult.status,
                !.validation_result = JsonStringify(validationResult)]

\* Variant: an update of a record that already has a status stores "unknown".
SetValidation_SecondUnknown(row, validationResult) ==
    [row EXCEPT !.validation_status =
                    IF row.validation_status = NULL THEN validationResult.status ELSE "unknown",
                !.validation_result = JsonStringify(validationResult),
                !.validated_at = DATE]

\* .set({ validation_status, validation_result: JSON.stringify(...), validated_at: now })
SetValidation(row, validationResult) ==
    [row EXCEPT !.validation_status = validationResult.status,
                !.validation_result = JsonStringify(validationResult),
                !.validated_at = DATE]

\* db.update(emailRecordsTable).set(...).where(eq(id, record.id))
UpdateRecord(id, validationResult) ==
    [k \in 1..Len(records) |->
        IF records[k].id = id
        THEN SetValidation(records[k], validationResult)
        ELSE records[k]]

\* One turn of the for loop that reaches the awaits: the classifier call
\* and the update of the record.  A rejected update lands in the catch,
\* which logs it.
backgroundValidateRecord(f, ok) ==
    /\ f \in Tasks({"scheduled", "loop"})
    /\ LET j == NextUnvalidated(f.emailRecords, f.i)
       IN  /\ j # 0
           /\ IF ok
              THEN /\ records' = UpdateRecord(f.emailRecords[j].id,
                          simulateMillionVerifierAPI(f.emailRecords[j].email))
                   /\ frames' = Replaced(f, TaskFrame(f.upload_id, "loop", f.emailRecords, j + 1))
              ELSE /\ frames' = Replaced(f, TaskFrame(f.upload_id, "catch", <<>>, 0))
                   /\ UNCHANGED records
    /\ UNCHANGED <<uploads, ingests, last>>

\* After the loop: mark the upload completed, and the task ends.  A
\* rejected update lands in the catch, which logs it.
backgroundSetCompleted(f, ok) ==
    /\ f \in Tasks({"scheduled", "loop"})
    /\ NextUnvalidated(f.emailRecords, f.i) = 0
    /\ IF ok
       THEN /\ uploads' = UpdateUpload(f.upload_id, SetCompleted(uploads[f.upload_id]))
            /\ frames' = Without(f)
       ELSE /\ frames' = Replaced(f, TaskFrame(f.upload_id, "catch", <<>>, 0))
            /\ UNCHANGED uploads
    /\ UNCHANGED <<records, ingests, last>>

\* The catch block: mark the upload failed, and the task ends; a rejected
\* update is logged by the inner catch and otherwise ignored.
backgroundSetFailed(f, ok) ==
    /\ f \in Tasks({"catch"})
    /\ frames' = Without(f)
    /\ uploads' = IF ok THEN UpdateUpload(f.upload_id, SetFailed(uploads[f.upload_id])) ELSE uploads
    /\ UNCHANGED <<records, ingests, last>>

----------------------------------------------------------------------------
\* Requests the model issues.

Csv_two_rows_blank_between ==
    <<"n", ",", "e", "m", "a", "i", "l", "\n",
      "x", ",", "a", "@", "b", "\n",
      ",", "\n",
      "y", ",", "b">>
Csv_blank_row_only == <<"e", "m", "a", "i", "l", "\n", "\"", "\"">>
Csv_header_only == <<"e", "m", "a", "i", "l", "\n">>

UploadInputs ==
    { [content |-> Csv_two_rows_blank_between, email_column |-> Undefined],
      [content |-> Csv_blank_row_only, email_column |-> Undefined],
      [content |-> Csv_header_only, email_column |-> Undefined] }

\* The ids a request may name: every upload there is, and one there is not.
UploadIds == 1..NextUploadId

Init ==
    /\ uploads = <<>>
    /\ records = <<>>
    /\ ingests = <<>>
    /\ frames = EmptyBag
    /\ last = Returned("none", 0, NULL)

Next ==
    \/ \E input \in UploadInputs : uploadCsv(input.content, input.email_column)
    \/ \E n \in 1..MaxUploads, ok \in BOOLEAN : uploadCsvInsertRecords(n, ok)
    \/ \E upload_id \in UploadIds : validateEmails(upload_id)
    \/ \E f \in BagToSet(frames) : validateEmailsSetProcessing(f)
    \/ \E f \in BagToSet(frames) : validateEmailsSelectRecords(f)
    \/ \E f \in BagToSet(frames) : validateEmailsSetCompleted(f)
    \/ \E f \in BagToSet(frames) : validateEmailsReturnCompleted(f)
    \/ \E f \in BagToSet(frames), ok \in BOOLEAN : backgroundValidateRecord(f, ok)
    \/ \E f \in BagToSet(frames), ok \in BOOLEAN : backgroundSetCompleted(f, ok)
    \/ \E f \in BagToSet(frames), ok \in BOOLEAN : backgroundSetFailed(f, ok)

Spec == Init /\ [][Next]_vars

----------------------------------------------------------------------------
\* Vocabulary of the properties.

RECURSIVE CopiesOfAll(_, _)
\* How many frames of the bag are in the set S of frames.
CopiesOfAll(S, bag) ==
    IF S = {} THEN 0
    ELSE LET f == CHOOSE x \in S : TRUE
         IN  CopiesIn(f, bag) + CopiesOfAll(S \ {f}, bag)

\* The frames of a bag that work on upload u: calls past the state checks,
\* and background tasks.
FramesOn(u, bag) == {f \in BagToSet(bag) : f.upload_id = u}
TasksOn(u, bag) ==
    {f \in BagToSet(bag) : f.fn = "validateEmailsBackground" /\ f.upload_id = u}
ScheduledOn(u, bag) == {f \in TasksOn(u, bag) : f.pc = "scheduled"}

\* Frame f takes a step: one copy of it leaves the bag.
Steps(f) == CopiesIn(f, frames') < CopiesIn(f, frames)

RecordsOf(u) == {k \in 1..Len(records) : records[k].upload_id = u}

----------------------------------------------------------------------------
\* C1: concurrent validateEmails calls on one upload schedule at most one
\* background phase: for every upload, at most one background task is ever
\* in flight.  (The code checks the status and sets it in two separate
\* statements, so two calls can both read `uploaded`.)
C1_OnePhasePerUpload ==
    \A u \in DOMAIN uploads : CopiesOfAll(TasksOn(u, frames), frames) <= 1

\* C2: an upload's status changes only along uploaded -> processing,
\* processing -> completed and processing -> failed; completed and failed
\* are final.
C2_StatusTransitions ==
    [][\A u \in DOMAIN uploads :
          \/ uploads'[u].status = uploads[u].status
          \/ <<uploads[u].status, uploads'[u].status>> \in
                { <<"uploaded", "processing">>,
                  <<"processing", "completed">>,
                  <<"processing", "failed">> }]_vars

\* C3: validateEmails throws "not found" exactly for an upload that does
\* not exist, "already being processed" exactly for status processing,
\* "already been validated" exactly for completed and "failed state"
\* exactly for failed; a call that throws changes no upload and no email
\* record and schedules nothing; and a call gets past the checks only on
\* an upload whose status is uploaded.
C3_GuardErrors ==
    [][/\ (last' # last /\ last'.op = "validateEmails" /\ last'.error # NULL) =>
            /\ UNCHANGED <<uploads, records, frames>>
            /\ last'.error \in {ErrNotFound, ErrAlreadyProcessing,
                                ErrAlreadyCompleted, ErrFailedState}
            /\ (last'.error = ErrNotFound) <=> (last'.upload_id \notin DOMAIN uploads)
            /\ last'.upload_id \in DOMAIN uploads =>
                 /\ (last'.error = ErrAlreadyProcessing)
                        <=> (uploads[last'.upload_id].status = "processing")
                 /\ (last'.error = ErrAlreadyCompleted)
                        <=> (uploads[last'.upload_id].status = "completed")
                 /\ (last'.error = ErrFailedState)
                        <=> (uploads[last'.upload_id].status = "failed")
       /\ \A g \in BagToSet(frames') :
            (g.fn = "validateEmails" /\ g.pc = "update_processing"
               /\ CopiesIn(g, frames') > CopiesIn(g, frames)) =>
                 /\ g.upload_id \in DOMAIN uploads
                 /\ uploads[g.upload_id].status = "uploaded"]_vars

\* C3 witness: a call on a failed upload has thrown "failed state", and
\* the upload still has its records.
C3_Witness ==
    /\ last.op = "validateEmails"
    /\ last.error = ErrFailedState
    /\ last.upload_id \in DOMAIN uploads
    /\ uploads[last.upload_id].status = "failed"
    /\ RecordsOf(last.upload_id) # {}

\* C4: when validateEmails returns "validation started" (the step that
\* hands the records to setImmediate), the upload's status is processing
\* and that step has written no email record.
C4_ReturnsInProcessing ==
    [][\A u \in DOMAIN uploads :
          CopiesOfAll(ScheduledOn(u, frames'), frames')
              > CopiesOfAll(ScheduledOn(u, frames), frames) =>
            /\ uploads'[u].status = "processing"
            /\ records' = records]_vars

\* C5: no upload is left in processing: once no validateEmails call and no
\* background task is in flight for an upload (nothing is left that could
\* still change its status), its status is not processing.
C5_NoStuckProcessing ==
    \A u \in DOMAIN uploads :
        FramesOn(u, frames) = {} => uploads[u].status # "processing"

\* C6: every email record of a completed upload has its validation status,
\* payload and timestamp.
C6_CompletedAllValidated ==
    \A u \in DOMAIN uploads :
        uploads[u].status = "completed" =>
            \A k \in RecordsOf(u) :
                /\ records[k].validation_status # NULL
                /\ records[k].validation_result # NULL
                /\ records[k].validated_at # NULL

\* C7: a validateEmails call that finds no email record for its upload
\* schedules no background task and marks the upload itself; at the step
\* where it returns, the message is the "No email records" one and the
\* upload's status is completed with completed_at set.  (Another call that
\* read `uploaded` before this one set `processing` can set `processing`
\* again between this call's update and its return.)
C7_NoRecordsCompletes ==
    [][/\ \A f \in Calls("select_records") :
            (Steps(f) /\ SelectRecords(f.upload_id) = <<>>) =>
                /\ frames' = Replaced(f, CallFrame(f.upload_id, "update_completed"))
                /\ UNCHANGED <<uploads, records, last>>
       /\ \A f \in Calls("return_completed") :
            Steps(f) =>
                /\ last' = Returned("validateEmails", f.upload_id, MsgNoRecords)
                /\ frames' = Without(f)
                /\ uploads'[f.upload_id].status = "completed"
                /\ uploads'[f.upload_id].completed_at # NULL]_vars

\* C8: a background task that caught a failure ends with its upload in
\* status failed and completed_at set.
C8_FailureEndsFailed ==
    [][\A f \in Tasks({"catch"}) :
          Steps(f) =>
            /\ uploads'[f.upload_id].status = "failed"
            /\ uploads'[f.upload_id].completed_at # NULL]_vars

\* C9: an upload row is in the store only together with all the email
\* records uploadCsv built for it, and not at all once the insert of the
\* records has failed.
C9_UploadWithRecords ==
    \A n \in 1..Len(ingests) :
        /\ n \in DOMAIN uploads => ingests[n].pc = "returned"
        /\ ingests[n].pc = "returned" =>
             Cardinality(RecordsOf(n)) = Len(ingests[n].emailRecords)

\* C10: after uploadCsv has returned, the total_rows stored on the upload,
\* the total_rows of the response and the number of email records stored
\* for the upload are the same number.
C10_TotalRowsAgree ==
    \A n \in 1..Len(ingests) :
        ingests[n].pc = "returned" =>
            /\ uploads[n].total_rows = ingests[n].response.total_rows
            /\ ingests[n].response.total_rows = Cardinality(RecordsOf(n))

----------------------------------------------------------------------------
\* uploadCsv on one request out of a range of CSV texts and hints, from the
\* empty store.

\* Bounds of the requests.
MaxHeaders == 2     \* header fields of a generated CSV text

\* rows.join(sep), as the tests build their CSV texts.
RECURSIVE Join(_, _)
Join(rows, sep) ==
    IF rows = <<>> THEN <<>>
    ELSE IF Len(rows) = 1 THEN rows[1]
    ELSE rows[1] \o <<sep>> \o Join(Tail(rows), sep)

HeaderNames == {Str_email, Str_mail, <<"E", "m", "a", "i", "l">>, <<"n">>}

HeaderLists ==
    UNION {[1..k -> HeaderNames] : k \in 1..MaxHeaders}

\* The hints: none, the empty text, two names that can occur, one that cannot.
Hints == {Undefined, <<>>, Str_mail, <<"n">>, <<"z">>}

\* Data rows: a plain row, a row with padded fields, a row of empty fields.
DataRows == { <<"a", "@", "b", ",", "c">>, <<" ", "x", " ", ",", "y">>, <<",">> }

\* CSV texts of a header line and one data row, each with every hint.
ResolverInputs ==
    { [content |-> Join(<<Join(h, ","), r>>, "\n"), email_column |-> hint] :
        h \in HeaderLists, r \in DataRows, hint \in Hints }

\* CSV texts with a quoted first field: a comma, a doubled quote and a
\* line break inside the quotes.
Csv_quoted_comma ==
    <<"e", "m", "a", "i", "l", ",", "n", "\n",
      "\"", "a", ",", "b", "\"", ",", "c">>
Csv_quoted_quote ==
    <<"e", "m", "a", "i", "l", ",", "n", "\n",
      "\"", "a", "\"", "\"", "b", "\"", ",", "c">>
Csv_quoted_newline ==
    <<"e", "m", "a", "i", "l", ",", "n", "\n",
      "\"", "a", "\n", "b", "\"", ",", "c">>

QuotedInputs ==
    { [content |-> c, email_column |-> Undefined] :
        c \in {Csv_quoted_comma, Csv_quoted_quote, Csv_quoted_newline} }

IngestInputs == ResolverInputs \cup UploadInputs \cup QuotedInputs

\* One uploadCsv request against the empty store, and its second statement.
IngestNext ==
    \/ \E input \in IngestInputs :
          /\ uploads = <<>>
          /\ uploadCsv(input.content, input.email_column)
    \/ \E ok \in BOOLEAN : uploadCsvInsertRecords(1, ok)

IngestSpec == Init /\ [][IngestNext]_vars

\* The request reaches the column resolution: it has a header and a data line.
ReachesResolver(input) == Len(CsvLines(input.content)) >= 2

\* The headers of a request's CSV text.
HeadersOf(input) == parseCSVRow(CsvLines(input.content)[1])

\* The first header whose lower-cased name contains sub; <<>> with none.
FirstHeaderContaining(headers, sub) ==
    LET hit(k) == Includes(ToLowerCase(headers[k]), sub)
    IN  IF \E k \in 1..Len(headers) : hit(k)
        THEN headers[CHOOSE k \in 1..Len(headers) : hit(k) /\ \A j \in 1..(k - 1) : ~hit(j)]
        ELSE <<>>

\* The column the stated resolution order selects; Undefined stands for the
\* ColumnNotFound failure.  The empty text counts as no hint, as it does
\* for the client (`email_column: emailColumn || undefined`).
StatedColumn(headers, hint) ==
    IF hint # Undefined /\ hint # <<>>
    THEN IF IndexOf(headers, hint) # 0 THEN hint ELSE Undefined
    ELSE IF \E k \in 1..Len(headers) : Includes(ToLowerCase(headers[k]), Str_email)
         THEN FirstHeaderContaining(headers, Str_email)
    ELSE IF \E k \in 1..Len(headers) : Includes(ToLowerCase(headers[k]), Str_mail)
         THEN FirstHeaderContaining(headers, Str_mail)
    ELSE headers[1]

\* C11: uploadCsv selects the email column in the stated order: a hint that
\* is a header is used, a hint that is no header fails with "column not
\* found"; without a hint the first header containing "email" (any case),
\* else the first containing "mail", else the first header.
C11_ColumnResolution ==
    [][\A input \in IngestInputs :
          (ReachesResolver(input) /\ uploadCsv(input.content, input.email_column)) =>
             LET want == StatedColumn(HeadersOf(input), input.email_column)
             IN  IF want = Undefined
                 THEN /\ last' = Threw("uploadCsv", 0, ErrColumnNotFound)
                      /\ uploads' = uploads
                 ELSE /\ Len(ingests') = 1
                      /\ uploads'[1].email_column = want
                      /\ ingests'[1].response.email_column = want]_vars

\* The lines of a CSV text that are not blank: a line is blank when every
\* field of it is empty.
NonBlankLines(content) ==
    LET lines == Split(content, "\n")
    IN  {k \in 1..Len(lines) :
            \E j \in 1..Len(parseCSVRow(lines[k])) : parseCSVRow(lines[k])[j] # <<>>}

\* C12: uploadCsv on a text with fewer than two non-blank lines (no header,
\* or a header and no non-blank data row) throws the "header row and one
\* data row" error and creates no upload.
C12_MalformedInput ==
    [][\A input \in IngestInputs :
          (Cardinality(NonBlankLines(input.content)) < 2
             /\ uploadCsv(input.content, input.email_column)) =>
                /\ last' = Threw("uploadCsv", 0, ErrNoDataRow)
                /\ uploads' = uploads]_vars

\* The value the quoted first field of each of the quoted CSV texts stands for.
QuotedValue(content) ==
    CASE content = Csv_quoted_comma -> <<"a", ",", "b">>
      [] content = Csv_quoted_quote -> <<"a", "\"", "b">>
      [] content = Csv_quoted_newline -> <<"a", "\n", "b">>

\* C13: a quoted field is one field, whatever commas, doubled quotes or line
\* breaks it holds: each of the quoted CSV texts has one data row, so
\* uploadCsv builds exactly one email record from it, whose email is the
\* value of the quoted field and whose other column is the field after it.
C13_QuotedFields ==
    [][\A input \in QuotedInputs :
          uploadCsv(input.content, input.email_column) =>
             /\ Len(ingests') = 1
             /\ Len(ingests'[1].emailRecords) = 1
             /\ ingests'[1].emailRecords[1].email = QuotedValue(input.content)
             /\ ingests'[1].emailRecords[1].additional_data = << <<(<<"n">>), <<"c">>>> >>]_vars

\* The value an object (a sequence of <<key, value>>) has under a key.
Lookup(obj, key) ==
    LET k == CHOOSE k \in 1..Len(obj) : obj[k][1] = key IN obj[k][2]

HasKey(obj, key) == \E k \in 1..Len(obj) : obj[k][1] = key

\* The data rows of a request's CSV text that are not blank, by row number
\* (1 is the line after the header).
NonBlankRows(input) ==
    LET lines == CsvLines(input.content)
    IN  {n \in 1..(Len(lines) - 1) :
            \E j \in 1..Len(parseCSVRow(lines[n + 1])) : parseCSVRow(lines[n + 1])[j] # <<>>}

\* What C14 states of the email records uploadCsv built for a request whose
\* email column was resolved to emailColumn.
RecordsAsStated(input, emailColumn, emailRecords) ==
    LET lines == CsvLines(input.content)
        headers == HeadersOf(input)
        idx == IndexOf(headers, emailColumn)
    IN  /\ Len(emailRecords) = Cardinality(NonBlankRows(input))
        /\ {emailRecords[k].row_number : k \in 1..Len(emailRecords)} = NonBlankRows(input)
        /\ \A k \in 1..Len(emailRecords) :
             LET rec == emailRecords[k]
                 row == parseCSVRow(lines[rec.row_number + 1])
             IN  /\ rec.email = Trim(FieldAt(row, idx))
                 /\ \A j \in 1..Len(headers) :
                      j # idx =>
                        /\ HasKey(rec.additional_data, headers[j])
                        /\ Lookup(rec.additional_data, headers[j]) = FieldAt(row, j)
                 /\ ~HasKey(rec.additional_data, emailColumn)

\* C14: uploadCsv builds exactly one email record per non-blank data row,
\* with the trimmed value of the email column as email and every other
\* header mapped to the row's value in additional_data, the email column
\* not among them; the new upload has status uploaded, and the records are
\* stored as built with validation status, result and timestamp null.
C14_RecordsPerRow ==
    [][/\ \A input \in IngestInputs :
            (uploadCsv(input.content, input.email_column) /\ uploads' # uploads) =>
               /\ uploads'[1].status = "uploaded"
               /\ RecordsAsStated(input, uploads'[1].email_column, ingests'[1].emailRecords)
       /\ uploadCsvInsertRecords(1, TRUE) =>
            /\ Len(records') = Len(ingests[1].emailRecords)
            /\ \A k \in 1..Len(records') :
                 /\ records'[k].upload_id = 1
                 /\ records'[k].row_number = ingests[1].emailRecords[k].row_number
                 /\ records'[k].email = ingests[1].emailRecords[k].email
                 /\ records'[k].additional_data = ingests[1].emailRecords[k].additional_data
                 /\ records'[k].validation_status = NULL
                 /\ records'[k].validation_result = NULL
                 /\ records'[k].validated_at = NULL]_vars

\* C15: in every state, each email record's validation_status,
\* validation_result and validated_at are all null or all set.
C15_ValidationFieldsTogether ==
    \A k \in 1..Len(records) :
        \/ /\ records[k].validation_status = NULL
           /\ records[k].validation_result = NULL
           /\ records[k].validated_at = NULL
        \/ /\ records[k].validation_status # NULL
           /\ records[k].validation_result # NULL
           /\ records[k].validated_at # NULL

\* C15 witness: in the middle of a background phase, one record of the
\* upload is validated and another is not yet.
C15_Witness ==
    \E f \in Tasks({"loop"}) :
        \E k, m \in RecordsOf(f.upload_id) :
            /\ records[k].validation_status # NULL
            /\ records[k].validated_at # NULL
            /\ records[m].validation_status = NULL

----------------------------------------------------------------------------
\* getUploadResults, on stores holding every validation status of the schema.

\* Bounds of the stores.
MaxRecords == 2     \* email records in a generated store

\* validationStatusEnum
ValidationStatuses ==
    {"ok", "catch_all", "unknown", "error", "disposable", "invalid", "duplicate"}

\* How many of the records have one of the statuses.
CountStatus(recs, statuses) ==
    Cardinality({k \in 1..Len(recs) : recs[k].validation_status \in statuses})

\* Mutant of Summary: validated counts only the records whose status is ok.
Summary_ValidatedOnlyOk(recs) ==
    [total |-> Len(recs),
     validated |-> CountStatus(recs, {"ok"}),
     ok |-> CountStatus(recs, {"ok"}),
     invalid |-> CountStatus(recs, {"invalid"}),
     disposable |-> CountStatus(recs, {"disposable"}),
     catch_all |-> CountStatus(recs, {"catch_all"}),
     unknown |-> CountStatus(recs, {"unknown"}),
     error |-> CountStatus(recs, {"error"}),
     duplicate |-> CountStatus(recs, {"duplicate"})]

\* const summary = { total: records.length, validated: ..., ok: ..., ... }
Summary(recs) ==
    [total |-> Len(recs),
     validated |-> Cardinality({k \in 1..Len(recs) : recs[k].validation_status # NULL}),
     ok |-> CountStatus(recs, {"ok"}),
     invalid |-> CountStatus(recs, {"invalid"}),
     disposable |-> CountStatus(recs, {"disposable"}),
     catch_all |-> CountStatus(recs, {"catch_all"}),
     unknown |-> CountStatus(recs, {"unknown"}),
     error |-> CountStatus(recs, {"error"}),
     duplicate |-> CountStatus(recs, {"duplicate"})]

\* A getUploadResults call suspended at its second select, holding the
\* upload row it read.
ResultsFrame(upload_id, upload) ==
    [fn |-> "getUploadResults", upload_id |-> upload_id, pc |-> "select_records",
     upload |-> upload]

\* What getUploadResults returns.
ResultsResponse(upload_id, upload, recs) ==
    [op |-> "getUploadResults", upload_id |-> upload_id, message |-> NULL, error |-> NULL,
     upload |-> upload, records |-> recs, summary |-> Summary(recs)]

\* The call and `await db.select().from(csvUploadsTable)`: not found, or on
\* to the select of the records.
getUploadResults(upload_id) ==
    /\ BagCardinality(frames) < MaxInFlight
    /\ IF upload_id \notin DOMAIN uploads
       THEN /\ last' = Threw("getUploadResults", upload_id, ErrNotFound)
            /\ UNCHANGED frames
       ELSE /\ frames' = frames (+) SetToBag({ResultsFrame(upload_id, uploads[upload_id])})
            /\ UNCHANGED last
    /\ UNCHANGED <<uploads, records, ingests>>

\* Variant: the response carries the upload row as it is at the second select.
getUploadResultsSelectRecords_RereadUpload(f) ==
    /\ f.fn = "getUploadResults"
    /\ frames' = Without(f)
    /\ last' = ResultsResponse(f.upload_id, uploads[f.upload_id], SelectRecords(f.upload_id))
    /\ UNCHANGED <<uploads, records, ingests>>

\* `await db.select().from(emailRecordsTable)`, the summary and the return.
getUploadResultsSelectRecords(f) ==
    /\ f.fn = "getUploadResults"
    /\ frames' = Without(f)
    /\ last' = ResultsResponse(f.upload_id, f.upload, SelectRecords(f.upload_id))
    /\ UNCHANGED <<uploads, records, ingests>>

\* An email record as the store holds it: never validated, or validated
\* with one of the statuses.
StoredRecord(id, upload_id, status) ==
    [id |-> id, upload_id |-> upload_id, row_number |-> id, email |-> <<"a", "@", "b">>,
     validation_status |-> status,
     validation_result |-> IF status = NULL THEN NULL ELSE "{}",
     additional_data |-> <<>>,
     validated_at |-> IF status = NULL THEN NULL ELSE DATE]

\* An upload row as the store holds it.
StoredUpload(status) ==
    [file_size |-> 1, total_rows |-> 1, email_column |-> Str_email,
     status |-> status, completed_at |-> IF status \in {"completed", "failed"} THEN DATE ELSE NULL]

\* Stores of two uploads, with up to MaxRecords email records of any owner
\* and status.
ResultsInit ==
    /\ uploads = [id \in 1..2 |-> StoredUpload("processing")]
    /\ \E n \in 0..MaxRecords :
         \E owner \in [1..n -> 1..2], status \in [1..n -> ValidationStatuses \cup {NULL}] :
            records = [k \in 1..n |-> StoredRecord(k, owner[k], status[k])]
    /\ ingests = <<>>
    /\ frames = EmptyBag
    /\ last = Returned("none", 0, NULL)

ResultsNext ==
    \/ \E upload_id \in UploadIds : getUploadResults(upload_id)
    \/ \E f \in BagToSet(frames) : getUploadResultsSelectRecords(f)

ResultsSpec == ResultsInit /\ [][ResultsNext]_vars

\* C16: getUploadResults throws "not found" exactly for an upload that does
\* not exist; what it returns has total = the number of the upload's email
\* records, validated = the number of them with a status, each status count
\* = the number of them with that status, and
\* validated = ok + invalid + disposable + catch_all + unknown + error +
\* duplicate <= total.
C16_ResultsSummary ==
    last.op = "getUploadResults" =>
        IF last.upload_id \notin DOMAIN uploads
        THEN last.error = ErrNotFound
        ELSE LET mine == {k \in 1..Len(records) : records[k].upload_id = last.upload_id}
                 with(st) == Cardinality({k \in mine : records[k].validation_status = st})
                 sum == last.summary
             IN  /\ last.error = NULL
                 /\ sum.total = Cardinality(mine)
                 /\ sum.validated = Cardinality({k \in mine : records[k].validation_status # NULL})
                 /\ sum.ok = with("ok")
                 /\ sum.invalid = with("invalid")
                 /\ sum.disposable = with("disposable")
                 /\ sum.catch_all = with("catch_all")
                 /\ sum.unknown = with("unknown")
                 /\ sum.error = with("error")
                 /\ sum.duplicate = with("duplicate")
                 /\ sum.validated = sum.ok + sum.invalid + sum.disposable + sum.catch_all
                                      + sum.unknown + sum.error + sum.duplicate
                 /\ sum.validated <= sum.total

\* C16 witness: results were returned for an upload with two records, one
\* never validated and one with status unknown.
C16_Witness ==
    /\ last.op = "getUploadResults"
    /\ last.error = NULL
    /\ last.summary.total = 2
    /\ last.summary.validated = 1
    /\ last.summary.unknown = 1

----------------------------------------------------------------------------
\* The background phase on one record, for a range of email texts.

\* Bounds of the email texts.
MaxTokens == 3      \* pieces an email text is put together from

EmailTokens ==
    {<<"@">>, <<"a">>, Str_disposable, Str_temp, Str_catch_all, <<"T", "e", "m", "p">>}

RECURSIVE Concat(_)
\* The pieces of a sequence of texts, one after the other.
Concat(pieces) ==
    IF pieces = <<>> THEN <<>> ELSE Head(pieces) \o Concat(Tail(pieces))

\* The email texts: up to MaxTokens tokens in any order.
Emails ==
    UNION {{Concat(p) : p \in [1..n -> EmailTokens]} : n \in 0..MaxTokens}

\* Upload 1 is processing with one email record, never validated, and its
\* background task has been handed to setImmediate: the state after
\* uploadCsv and validateEmails.
ClassifierInit ==
    /\ uploads = [id \in 1..1 |-> StoredUpload("processing")]
    /\ \E e \in Emails :
         /\ records = <<[StoredRecord(1, 1, NULL) EXCEPT !.email = e]>>
         /\ frames = SetToBag({TaskFrame(1, "scheduled",
                                  <<[StoredRecord(1, 1, NULL) EXCEPT !.email = e]>>, 1)})
    /\ ingests = <<>>
    /\ last = Returned("validateEmails", 1, MsgStarted)

ClassifierNext ==
    \/ \E f \in BagToSet(frames), ok \in BOOLEAN : backgroundValidateRecord(f, ok)
    \/ \E f \in BagToSet(frames), ok \in BOOLEAN : backgroundSetCompleted(f, ok)
    \/ \E f \in BagToSet(frames), ok \in BOOLEAN : backgroundSetFailed(f, ok)

ClassifierSpec == ClassifierInit /\ [][ClassifierNext]_vars

\* The verdict as stated: invalid without an "@"; else disposable with
\* "disposable" or "temp"; else catch_all with "catch_all"; else ok.
StatedVerdict(email) ==
    IF \A i \in 1..Len(email) : email[i] # "@" THEN "invalid"
    ELSE IF Includes(email, Str_disposable) \/ Includes(email, Str_temp) THEN "disposable"
    ELSE IF Includes(email, Str_catch_all) THEN "catch_all"
    ELSE "ok"

\* C17: the status the background phase writes to a record is the stated
\* verdict on the record's email, and the stored payload is that verdict's.
C17_ClassifierVerdict ==
    \A k \in 1..Len(records) :
        records[k].validation_status # NULL =>
            /\ records[k].validation_status = StatedVerdict(records[k].email)
            /\ records[k].validation_result
                 = JsonStringify(simulateMillionVerifierAPI(records[k].email))
            /\ simulateMillionVerifierAPI(records[k].email).status
                 = StatedVerdict(records[k].email)

\* C17 witness: an email with an "@", "temp" and "catch_all" was written
\* as disposable.
C17_Witness ==
    \E k \in 1..Len(records) :
        /\ Includes(records[k].email, <<"@">>)
        /\ Includes(records[k].email, Str_temp)
        /\ Includes(records[k].email, Str_catch_all)
        /\ records[k].validation_status = "disposable"

----------------------------------------------------------------------------
\* downloadValidatedCsv ("downloadCsv"): the handler in the repository is a
\* placeholder, so the CSV encoder and the handler are modelled from the
\* specification (sections 4.1 and 4.5).  The response carries the CSV text
\* (before its base64 encoding) and the table it was encoded from.

\* A field is wrapped in quotes if it holds a comma, a quote or a line break.
NeedsQuotes(field) == \E i \in 1..Len(field) : field[i] \in {",", "\"", "\n"}

RECURSIVE DoubleQuotes(_)
\* Every quote of the field doubled.
DoubleQuotes(field) ==
    IF field = <<>> THEN <<>>
    ELSE IF Head(field) = "\"" THEN <<"\"", "\"">> \o DoubleQuotes(Tail(field))
    ELSE <<Head(field)>> \o DoubleQuotes(Tail(field))

EncodeField(field) ==
    IF NeedsQuotes(field) THEN <<"\"">> \o DoubleQuotes(field) \o <<"\"">> ELSE field

\* One line per row, fields joined with commas; lines joined with "\n".
EncodeRow(fields) == Join([k \in 1..Len(fields) |-> EncodeField(fields[k])], ",")
EncodeCsv(rows) == Join([k \in 1..Len(rows) |-> EncodeRow(rows[k])], "\n")

ErrNoRecords == "No email records found for upload"

Str_validation_status == <<"v", "a", "l", "i", "d", "a", "t", "i", "o", "n", "_", "s", "t",
             "a", "t", "u", "s">>
Str_validation_result == <<"v", "a", "l", "i", "d", "a", "t", "i", "o", "n", "_", "r", "e",
             "s", "u", "l", "t">>
Str_validated_at == <<"v", "a", "l", "i", "d", "a", "t", "e", "d", "_", "a", "t">>

\* The text of a validation status; the empty text for none.
StatusText(status) ==
    IF status = NULL THEN <<>> ELSE
    CASE status = "ok" -> <<"o", "k">>
      [] status = "catch_all" -> <<"c", "a", "t", "c", "h", "_", "a", "l", "l">>
      [] status = "unknown" -> <<"u", "n", "k", "n", "o", "w", "n">>
      [] status = "error" -> <<"e", "r", "r", "o", "r">>
      [] status = "disposable" -> <<"d", "i", "s", "p", "o", "s", "a", "b", "l", "e">>
      [] status = "invalid" -> <<"i", "n", "v", "a", "l", "i", "d">>
      [] status = "duplicate" -> <<"d", "u", "p", "l", "i", "c", "a", "t", "e">>

\* The text of a stored payload; the empty text for none.
ResultText(validation_result) ==
    IF validation_result = NULL THEN <<>> ELSE
    CASE validation_result = "{\"status\":\"invalid\",\"resultcode\":2,\"result\":\"invalid\",\"credits\":99,\"executiontime\":0.1}" ->
             <<"{", "\"", "s", "t", "a", "t", "u", "s", "\"", ":", "\"", "i",
             "n", "v", "a", "l", "i", "d", "\"", ",", "\"", "r", "e", "s",
             "u", "l", "t", "c", "o", "d", "e", "\"", ":", "2", ",", "\"",
             "r", "e", "s", "u", "l", "t", "\"", ":", "\"", "i", "n", "v",
             "a", "l", "i", "d", "\"", ",", "\"", "c", "r", "e", "d", "i",
             "t", "s", "\"", ":", "9", "9", ",", "\"", "e", "x", "e", "c",
             "u", "t", "i", "o", "n", "t", "i", "m", "e", "\"", ":", "0", ".",
             "1", "}">>
      [] validation_result = "{\"status\":\"disposable\",\"resultcode\":4,\"result\":\"disposable\",\"credits\":99,\"executiontime\":0.1}" ->
             <<"{", "\"", "s", "t", "a", "t", "u", "s", "\"", ":", "\"", "d",
             "i", "s", "p", "o", "s", "a", "b", "l", "e", "\"", ",", "\"",
             "r", "e", "s", "u", "l", "t", "c", "o", "d", "e", "\"", ":", "4",
             ",", "\"", "r", "e", "s", "u", "l", "t", "\"", ":", "\"", "d",
             "i", "s", "p", "o", "s", "a", "b", "l", "e", "\"", ",", "\"",
             "c", "r", "e", "d", "i", "t", "s", "\"", ":", "9", "9", ",",
             "\"", "e", "x", "e", "c", "u", "t", "i", "o", "n", "t", "i", "m",
             "e", "\"", ":", "0", ".", "1", "}">>
      [] validation_result = "{\"status\":\"catch_all\",\"resultcode\":3,\"result\":\"catch_all\",\"credits\":99,\"executiontime\":0.1}" ->
             <<"{", "\"", "s", "t", "a", "t", "u", "s", "\"", ":", "\"", "c",
             "a", "t", "c", "h", "_", "a", "l", "l", "\"", ",", "\"", "r",
             "e", "s", "u", "l", "t", "c", "o", "d", "e", "\"", ":", "3", ",",
             "\"", "r", "e", "s", "u", "l", "t", "\"", ":", "\"", "c", "a",
             "t", "c", "h", "_", "a", "l", "l", "\"", ",", "\"", "c", "r",
             "e", "d", "i", "t", "s", "\"", ":", "9", "9", ",", "\"", "e",
             "x", "e", "c", "u", "t", "i", "o", "n", "t", "i", "m", "e", "\"",
             ":", "0", ".", "1", "}">>
      [] validation_result = "{\"status\":\"ok\",\"resultcode\":1,\"result\":\"ok\",\"credits\":99,\"executiontime\":0.1}" ->
             <<"{", "\"", "s", "t", "a", "t", "u", "s", "\"", ":", "\"", "o",
             "k", "\"", ",", "\"", "r", "e", "s", "u", "l", "t", "c", "o",
             "d", "e", "\"", ":", "1", ",", "\"", "r", "e", "s", "u", "l",
             "t", "\"", ":", "\"", "o", "k", "\"", ",", "\"", "c", "r", "e",
             "d", "i", "t", "s", "\"", ":", "9", "9", ",", "\"", "e", "x",
             "e", "c", "u", "t", "i", "o", "n", "t", "i", "m", "e", "\"", ":",
             "0", ".", "1", "}">>
      [] validation_result = "{}" ->
             <<"{", "}">>
      [] validation_result = "{\"status\": \"ok\"}" ->
             <<"{", "\"", "s", "t", "a", "t", "u", "s", "\"", ":", " ", "\"", "o", "k", "\"", "}">>

\* validated_at as an ISO-8601 text; the empty text for none.
IsoString(validated_at) ==
    IF validated_at = NULL THEN <<>>
    ELSE <<"2", "0", "2", "4", "-", "0", "1", "-", "0", "1", "T", "1", "0",
             ":", "0", "0", ":", "0", "0", ".", "0", "0", "0", "Z">>

\* Variant: the records in the order the store returns them.
SortByRowNumber_StoreOrder(recs) == recs

RECURSIVE SortByRowNumber(_)
\* The records in ascending row_number order.
SortByRowNumber(recs) ==
    IF recs = <<>> THEN <<>>
    ELSE LET m == CHOOSE k \in 1..Len(recs) :
                    /\ \A j \in 1..Len(recs) : recs[k].row_number <= recs[j].row_number
                    /\ \A j \in 1..(k - 1) : recs[j].row_number # recs[k].row_number
         IN  <<recs[m]>> \o SortByRowNumber(SubSeq(recs, 1, m - 1) \o SubSeq(recs, m + 1, Len(recs)))

\* The keys of an object, in property order.
Keys(obj) == [k \in 1..Len(obj) |-> obj[k][1]]

\* The original columns: the keys of the first record's additional_data,
\* and the email column appended when it is not among them.
DownloadColumns(emailColumn, first) ==
    LET original == Keys(first.additional_data)
    IN  IF IndexOf(original, emailColumn) # 0 THEN original ELSE Append(original, emailColumn)

\* The value of a record in a column; the empty text when it has none.
DownloadCell(emailColumn, rec, column) ==
    IF column = emailColumn THEN rec.email
    ELSE IF \E k \in 1..Len(rec.additional_data) : rec.additional_data[k][1] = column
    THEN LET k == CHOOSE k \in 1..Len(rec.additional_data) : rec.additional_data[k][1] = column
         IN  rec.additional_data[k][2]
    ELSE <<>>

DownloadRow(emailColumn, columns, rec) ==
    [k \in 1..Len(columns) |-> DownloadCell(emailColumn, rec, columns[k])]
        \o <<StatusText(rec.validation_status),
             ResultText(rec.validation_result),
             IsoString(rec.validated_at)>>

\* The header row and one row per record, in row_number order.
DownloadTable(upload, recs) ==
    LET sorted == SortByRowNumber(recs)
        columns == DownloadColumns(upload.email_column, sorted[1])
    IN  <<columns \o <<Str_validation_status, Str_validation_result, Str_validated_at>>>>
          \o [k \in 1..Len(sorted) |-> DownloadRow(upload.email_column, columns, sorted[k])]

\* A downloadValidatedCsv call that has read its upload row.
DownloadFrame(upload_id, upload) ==
    [fn |-> "downloadValidatedCsv", upload_id |-> upload_id, pc |-> "select_records",
     upload |-> upload]

DownloadResponse(upload_id, upload, recs) ==
    [op |-> "downloadValidatedCsv", upload_id |-> upload_id, message |-> NULL, error |-> NULL,
     table |-> DownloadTable(upload, recs),
     csvContent |-> EncodeCsv(DownloadTable(upload, recs)),
     mime_type |-> "text/csv"]

\* The call and the read of the upload: not found, or on to the records.
downloadValidatedCsv(upload_id) ==
    /\ BagCardinality(frames) < MaxInFlight
    /\ IF upload_id \notin DOMAIN uploads
       THEN /\ last' = Threw("downloadValidatedCsv", upload_id, ErrNotFound)
            /\ UNCHANGED frames
       ELSE /\ frames' = frames (+) SetToBag({DownloadFrame(upload_id, uploads[upload_id])})
            /\ UNCHANGED last
    /\ UNCHANGED <<uploads, records, ingests>>

\* Variant: the file is built from the records of every upload.
downloadValidatedCsvSelectRecords_AllRecords(f) ==
    /\ f.fn = "downloadValidatedCsv"
    /\ frames' = Without(f)
    /\ last' = IF records = <<>>
               THEN Threw("downloadValidatedCsv", f.upload_id, ErrNoRecords)
               ELSE DownloadResponse(f.upload_id, f.upload, records)
    /\ UNCHANGED <<uploads, records, ingests>>

\* The read of the upload's records: no records, or the file.
downloadValidatedCsvSelectRecords(f) ==
    /\ f.fn = "downloadValidatedCsv"
    /\ frames' = Without(f)
    /\ last' = IF SelectRecords(f.upload_id) = <<>>
               THEN Threw("downloadValidatedCsv", f.upload_id, ErrNoRecords)
               ELSE DownloadResponse(f.upload_id, f.upload, SelectRecords(f.upload_id))
    /\ UNCHANGED <<uploads, records, ingests>>

\* uploadCsv's decoder: the text split into lines, each line parsed into
\* its fields.
DecodeCsv(csvContent) ==
    [k \in 1..Len(CsvLines(csvContent)) |-> parseCSVRow(CsvLines(csvContent)[k])]

\* Values of a column "n": plain, with a comma, with a quote, with a line
\* break, with a leading and with a trailing space.
CellValues ==
    { <<"a">>, <<"a", ",", "b">>, <<"a", "\"", "b">>, <<"a", "\n", "b">>,
      <<" ", "a">>, <<"a", " ">> }

\* A record of upload 1 as the store holds it: one more column "n", and
\* either no validation or an "ok" verdict with a short payload.
DownloadRecord(id, row_number, value, status) ==
    [id |-> id, upload_id |-> 1, row_number |-> row_number, email |-> <<"a", "@", "b">>,
     validation_status |-> status,
     validation_result |->
         IF status = NULL THEN NULL ELSE "{\"status\": \"ok\"}",
     additional_data |-> <<<<Str_email, <<"a", "@", "b">>>>, <<<<"n">>, value>>>>,
     validated_at |-> IF status = NULL THEN NULL ELSE DATE]

\* Stores of two uploads: upload 1 with up to MaxRecords records, inserted
\* in any row_number order, upload 2 with none.
DownloadInit ==
    /\ uploads = [id \in 1..2 |-> StoredUpload("completed")]
    /\ \E n \in 0..MaxRecords :
         \E row_number \in {p \in [1..n -> 1..n] : \A i, j \in 1..n : p[i] = p[j] => i = j},
            value \in [1..n -> CellValues], status \in [1..n -> {NULL, "ok"}] :
            records = [k \in 1..n |-> DownloadRecord(k, row_number[k], value[k], status[k])]
    /\ ingests = <<>>
    /\ frames = EmptyBag
    /\ last = Returned("none", 0, NULL)

DownloadNext ==
    \/ \E upload_id \in 1..3 : downloadValidatedCsv(upload_id)
    \/ \E f \in BagToSet(frames) : downloadValidatedCsvSelectRecords(f)

DownloadSpec == DownloadInit /\ [][DownloadNext]_vars

\* C18: the text of a downloaded file, decoded with uploadCsv's decoder,
\* is the table it was encoded from, whatever commas, quotes, line breaks
\* and leading or trailing spaces its values hold.
C18_RoundTrip ==
    (last.op = "downloadValidatedCsv" /\ last.error = NULL)
        => DecodeCsv(last.csvContent) = last.table

\* One uploadCsv request against the empty store, and downloads of what
\* it stored.
ExportNext ==
    \/ IngestNext
    \/ DownloadNext

ExportSpec == Init /\ [][ExportNext]_vars

\* The header list uploadCsv detected in the file of an upload.
DetectedColumns(upload_id) ==
    LET n == CHOOSE n \in 1..Len(ingests) : ingests[n].response.upload_id = upload_id
    IN  ingests[n].response.detected_columns

\* C19: the header row of a downloaded file is the uploaded file's header
\* list, in its order, followed by validation_status, validation_result
\* and validated_at.
C19_HeaderRow ==
    (last.op = "downloadValidatedCsv" /\ last.error = NULL)
        => last.table[1] = DetectedColumns(last.upload_id)
                              \o <<Str_validation_status, Str_validation_result, Str_validated_at>>

----------------------------------------------------------------------------
\* getUploads: the handler in the repository is a placeholder (it returns
\* the empty list), so it is modelled from the specification (section 6):
\* every upload, ordered by creation time descending.  The upload rows of
\* this part carry their created_at, a number.

\* Bounds of the stores.
MaxStoredUploads == 3   \* upload rows in a drawn store, and the range of created_at

\* Variant: ordered by creation time ascending.
OrderedByCreatedAtDesc_Ascending(ids) ==
    \A k \in 1..(Len(ids) - 1) :
        uploads[ids[k]].created_at <= uploads[ids[k + 1]].created_at

\* ORDER BY created_at DESC, over a list of upload ids.
OrderedByCreatedAtDesc(ids) ==
    \A k \in 1..(Len(ids) - 1) :
        uploads[ids[k]].created_at >= uploads[ids[k + 1]].created_at

\* The orders in which the select can return the upload rows: every row
\* once; rows of equal created_at in either order.
UploadOrders ==
    {ids \in [1..Cardinality(DOMAIN uploads) -> DOMAIN uploads] :
        /\ \A i, j \in DOMAIN ids : ids[i] = ids[j] => i = j
        /\ OrderedByCreatedAtDesc(ids)}

\* A row of csv_uploads as the handler returns it, with its id.
UploadWithId(id) == [id |-> id] @@ uploads[id]

GetUploadsResponse(ids) ==
    [op |-> "getUploads", upload_id |-> 0, message |-> NULL, error |-> NULL,
     uploads |-> [k \in 1..Len(ids) |-> UploadWithId(ids[k])]]

\* The one statement of getUploads and its return.
getUploads ==
    /\ \E ids \in UploadOrders : last' = GetUploadsResponse(ids)
    /\ UNCHANGED <<uploads, records, ingests, frames>>

\* Stores of up to MaxStoredUploads uploads, inserted with any creation
\* times and in any of the states uploaded and completed.
UploadsInit ==
    /\ \E n \in 0..MaxStoredUploads :
         \E created_at \in [1..n -> 1..MaxStoredUploads],
            status \in [1..n -> {"uploaded", "completed"}] :
            uploads = [id \in 1..n |->
                          [created_at |-> created_at[id]] @@ StoredUpload(status[id])]
    /\ records = <<>>
    /\ ingests = <<>>
    /\ frames = EmptyBag
    /\ last = Returned("none", 0, NULL)

UploadsNext == getUploads

UploadsSpec == UploadsInit /\ [][UploadsNext]_vars

----------------------------------------------------------------------------
\* Properties of the whole system (Spec), continued.

\* The turn of the loop that task f takes on a step: it has moved on to
\* "loop" behind record j, so its update of that record was executed.
WritesRecord(f, j) ==
    /\ Steps(f)
    /\ j # 0
    /\ CopiesIn(TaskFrame(f.upload_id, "loop", f.emailRecords, j + 1), frames')
          > CopiesIn(TaskFrame(f.upload_id, "loop", f.emailRecords, j + 1), frames)

\* C23: the validation fields of an email record are written at most
\* once: a background task executes its update only on a record that has
\* no validation status in the store.  (Two tasks scheduled for one upload
\* each hold their own list of the records as selected, all unvalidated.)
C23_WrittenAtMostOnce ==
    [][\A f \in Tasks({"scheduled", "loop"}) :
          LET j == NextUnvalidated(f.emailRecords, f.i)
          IN  WritesRecord(f, j) =>
                \A k \in 1..Len(records) :
                    records[k].id = f.emailRecords[j].id =>
                        records[k].validation_status = NULL]_vars

----------------------------------------------------------------------------
\* Properties of uploadCsv (IngestSpec), continued.

\* The n-th non-blank data row of a request's CSV text, by row number.
NthNonBlankRow(input, n) ==
    CHOOSE r \in NonBlankRows(input) :
        Cardinality({m \in NonBlankRows(input) : m < r}) = n - 1

\* What C24 states of the email records uploadCsv built for a request:
\* row numbers at least 1 and pairwise distinct, and the record at rank n
\* by row_number holds the email of the n-th non-blank data row.
RowNumbersAsStated(input, emailColumn, emailRecords) ==
    LET lines == CsvLines(input.content)
        idx == IndexOf(HeadersOf(input), emailColumn)
        ks == 1..Len(emailRecords)
    IN  /\ \A k \in ks : emailRecords[k].row_number >= 1
        /\ \A j, k \in ks : emailRecords[j].row_number = emailRecords[k].row_number => j = k
        /\ Len(emailRecords) = Cardinality(NonBlankRows(input))
        /\ \A k \in ks :
             LET rank == Cardinality({j \in ks :
                            emailRecords[j].row_number < emailRecords[k].row_number}) + 1
                 row == parseCSVRow(lines[NthNonBlankRow(input, rank) + 1])
             IN  emailRecords[k].email = Trim(FieldAt(row, idx))

\* C24: the row numbers of an upload's email records are at least 1 and
\* pairwise distinct, ordering the records by row_number gives the order
\* of the non-blank data rows of the uploaded text, and the records are
\* stored with the row numbers they were built with.
C24_RowNumbers ==
    [][/\ uploads' # uploads =>
            \A input \in IngestInputs :
               (/\ Len(input.content) = uploads'[1].file_size
                /\ uploadCsv(input.content, input.email_column)) =>
                  RowNumbersAsStated(input, uploads'[1].email_column, ingests'[1].emailRecords)
       /\ uploadCsvInsertRecords(1, TRUE) =>
            /\ \A k \in RecordsOf(1)' : records'[k].row_number >= 1
            /\ \A j, k \in RecordsOf(1)' :
                 records'[j].row_number = records'[k].row_number => j = k
            /\ \A k \in 1..Len(ingests[1].emailRecords) :
                 \E j \in RecordsOf(1)' :
                    /\ records'[j].row_number = ingests[1].emailRecords[k].row_number
                    /\ records'[j].email = ingests[1].emailRecords[k].email]_vars

\* Two records are stored for a text with a blank row between its two data
\* rows: the second record has row number 3.
C24_Witness ==
    /\ Len(records) = 2
    /\ records[1].upload_id = 1
    /\ records[1].row_number = 1
    /\ records[2].row_number = 3
    /\ records[1].email # records[2].email

----------------------------------------------------------------------------
\* The whole router: every procedure, against a store that already holds
\* one upload with one email record, as uploadCsv leaves it.

Csv_one_row == <<"e", "m", "a", "i", "l", ",", "n", "\n", "a", "@", "b", ",", "c">>

SystemInit ==
    /\ uploads = (1 :> NewUploadRow(Csv_one_row, CsvLines(Csv_one_row), Str_email, 1))
    /\ records = <<[id |-> 1, upload_id |-> 1, row_number |-> 1,
                    email |-> <<"a", "@", "b">>,
                    validation_status |-> NULL, validation_result |-> NULL,
                    additional_data |-> <<<<<<"n">>, <<"c">>>>>>,
                    validated_at |-> NULL]>>
    /\ ingests = <<>>
    /\ frames = EmptyBag
    /\ last = Returned("none", 0, NULL)

SystemNext ==
    \/ Next
    \/ ResultsNext
    \/ DownloadNext
    \/ getUploads

SystemSpec == SystemInit /\ [][SystemNext]_vars

\* A step of a validateEmails call or of a background task.
ValidationSteps ==
    \E f \in BagToSet(frames) :
        f.fn \in {"validateEmails", "validateEmailsBackground"} /\ Steps(f)

\* A step of uploadCsv, getUploadResults, downloadValidatedCsv or getUploads.
OtherSteps ==
    \/ ingests' # ingests
    \/ \E f \in BagToSet(frames) :
          f.fn \in {"getUploadResults", "downloadValidatedCsv"} /\ Steps(f)
    \/ \E f \in BagToSet(frames') :
          f.fn \in {"getUploadResults", "downloadValidatedCsv"}
             /\ CopiesIn(f, frames') > CopiesIn(f, frames)
    \/ (last' # last /\ last'.op \in {"getUploadResults", "downloadValidatedCsv", "getUploads"})

\* C25: no step removes an upload or an email record; the status and
\* completed_at of an existing upload and the fields of an existing email
\* record change only on steps of validateEmails calls and background
\* tasks; steps of uploadCsv, getUploadResults, downloadValidatedCsv and
\* getUploads leave every existing upload and email record as it is.
C25_OnlyValidationMutates ==
    [][/\ DOMAIN uploads \subseteq DOMAIN uploads'
       /\ Len(records') >= Len(records)
       /\ \A u \in DOMAIN uploads :
            uploads'[u] # uploads[u] => ValidationSteps
       /\ \A k \in 1..Len(records) :
            records'[k] # records[k] => ValidationSteps
       /\ OtherSteps =>
            /\ \A u \in DOMAIN uploads : uploads'[u] = uploads[u]
            /\ \A k \in 1..Len(records) : records'[k] = records[k]]_vars

\* getUploads has returned two uploads while the first upload's record is
\* validated and the records of the second upload are stored behind it.
C25_Witness ==
    /\ last.op = "getUploads"
    /\ Len(last.uploads) = 2
    /\ Len(records) >= 2
    /\ records[1].validation_status # NULL
    /\ records[2].upload_id = 2

\* C26: an upload's completed_at is null exactly when its status is
\* uploaded or processing, and set exactly when it is completed or failed.
\* (A call that read `uploaded` before another call or task finished the
\* upload sets `processing` afterwards and leaves completed_at as it is.)
C26_CompletedAtMatchesStatus ==
    \A u \in DOMAIN uploads :
        (uploads[u].completed_at = NULL) <=> (uploads[u].status \in {"uploaded", "processing"})

\* The number of validated records getUploadResults would report for
\* upload u from the store as it is.
ValidatedCount(u) == Summary(SelectRecords(u)).validated

\* C27: a validation status, once set, stays as it is on every step (also
\* when the record is written again), so the validated count of every
\* upload never decreases; and the count a getUploadResults response
\* reports is the count of the store at the step it is computed.
C27_ValidationMonotonic ==
    [][/\ \A k \in 1..Len(records) :
            records[k].validation_status # NULL =>
                records'[k].validation_status = records[k].validation_status
       /\ \A u \in DOMAIN uploads : ValidatedCount(u)' >= ValidatedCount(u)
       /\ (last' # last /\ last'.op = "getUploadResults" /\ last'.error = NULL) =>
            last'.summary.validated = ValidatedCount(last'.upload_id)]_vars

\* getUploadResults has reported one validated record out of two while a
\* background task is in its loop.
C27_Witness ==
    /\ last.op = "getUploadResults"
    /\ last.error = NULL
    /\ last.summary.validated = 1
    /\ last.summary.total = 2
    /\ Tasks({"loop"}) # {}

\* C28 as claimed: a getUploadResults response is what one read of one
\* store state gives; in particular it never shows the upload in status
\* uploaded together with a record that has a validation status (no store
\* state holds both).
C28_AtomicRead ==
    (last.op = "getUploadResults" /\ last.error = NULL) =>
        ~ /\ last.upload.status = "uploaded"
          /\ \E k \in 1..Len(last.records) : last.records[k].validation_status # NULL

\* C28 as the code has it: a getUploadResults call reads the upload row in
\* one statement and the records in a later one.  The upload of a response
\* is the row as stored when the call read it, its records are the
\* upload's records as stored at the step of the second read, and its
\* summary counts those records; the two reads need not see the same state.
C28_TwoReads ==
    [][/\ \A g \in BagToSet(frames') :
            (g.fn = "getUploadResults" /\ CopiesIn(g, frames') > CopiesIn(g, frames)) =>
                /\ g.upload_id \in DOMAIN uploads
                /\ g.upload = uploads[g.upload_id]
                /\ UNCHANGED <<uploads, records>>
       /\ \A f \in BagToSet(frames) :
            (f.fn = "getUploadResults" /\ Steps(f)) =>
                /\ last'.op = "getUploadResults"
                /\ last'.upload_id = f.upload_id
                /\ last'.upload = f.upload
                /\ last'.records = SelectSeq(records, LAMBDA r : r.upload_id = f.upload_id)
                /\ last'.summary.total = Len(last'.records)
                /\ last'.summary.validated =
                      Cardinality({k \in 1..Len(last'.records) :
                                      last'.records[k].validation_status # NULL})
                /\ UNCHANGED <<uploads, records>>]_vars

\* A response shows the upload in status uploaded together with a
\* validated record: the upload was started and its record validated
\* between the two reads of the call.
C28_Witness ==
    /\ last.op = "getUploadResults"
    /\ last.error = NULL
    /\ last.upload.status = "uploaded"
    /\ \E k \in 1..Len(last.records) : last.records[k].validation_status # NULL

\* C29: a background task that fails rolls nothing back (the step into the
\* catch and the catch itself leave every email record as it is), and
\* from then on the records of the failed upload stay as they are: the
\* validated ones keep their results, the others keep null validation
\* fields.  (A second background task of the same upload goes on writing
\* after the first one has marked the upload failed.)
C29_FailureKeepsRecords ==
    [][/\ \A f \in BagToSet(frames) :
            (f.fn = "validateEmailsBackground" /\ Steps(f)
                /\ (f.pc = "catch" \/ CopiesIn(TaskFrame(f.upload_id, "catch", <<>>, 0), frames')
                                        > CopiesIn(TaskFrame(f.upload_id, "catch", <<>>, 0), frames)))
              => records' = records
       /\ \A u \in DOMAIN uploads :
            uploads[u].status = "failed" =>
                \A k \in RecordsOf(u) : records'[k] = records[k]]_vars

----------------------------------------------------------------------------
\* uploadCsv and validation against a store that already holds one upload
\* with one email record: validation of two uploads, interleaved.

ValidationSpec == SystemInit /\ [][Next]_vars

\* C30: a step of a validateEmails call or of a background task of upload
\* A leaves every other upload and every email record of another upload
\* as it is, and adds and removes no upload and no email record.
C30_OtherUploadsUntouched ==
    [][\A f \in BagToSet(frames) :
          (f.fn \in {"validateEmails", "validateEmailsBackground"} /\ Steps(f)) =>
              /\ DOMAIN uploads' = DOMAIN uploads
              /\ Len(records') = Len(records)
              /\ \A u \in DOMAIN uploads :
                   u # f.upload_id => uploads'[u] = uploads[u]
              /\ \A k \in 1..Len(records) :
                   records[k].upload_id # f.upload_id => records'[k] = records[k]]_vars

\* Background tasks of upload 1 and of upload 2 are in flight together,
\* the record of upload 1 is validated and a record of upload 2 is not.
C30_Witness ==
    /\ \E f, g \in Tasks({"scheduled", "loop"}) : f.upload_id = 1 /\ g.upload_id = 2
    /\ records[1].upload_id = 1
    /\ records[1].validation_status # NULL
    /\ \E k \in RecordsOf(2) : records[k].validation_status = NULL

====
